---- MODULE Spec2Model ----
(***************************************************************************)
(* Model of currency_converter.py: the symbol resolver                     *)
(* (is_currency_code, get_currency_code), the conversion loop (convert)    *)
(* and the two shells around it (currency_converter_api, main).            *)
(*                                                                         *)
(* Amounts and provider results are fixed-point integers in units of       *)
(* 10^-6.  The rate providers (forex_python) are the environment: every    *)
(* provider call returns a value, raises RatesNotAvailableError or raises  *)
(* ConnectionError, chosen nondeterministically.                           *)
(***************************************************************************)
EXTENDS Integers, Sequences, FiniteSets

VARIABLES
    table,                \* content of symbols.json, as get_currency_data() returns it
    pc,                   \* "start" | "loop" (inside convert's for loop) | "done"
    shell,                \* "none" | "http" | "cli" | "resolver"
    args,                 \* the raw request: amount text, input and output token
    amount,               \* parsed amount (units of 10^-6)
    input_currency_code,  \* convert's local
    currency_data,        \* convert's local: the list the loop iterates
    idx,                  \* position of the loop in currency_data (1-based)
    output_currencies,    \* convert's local dict, as a sequence of [cc, value] in insertion order
    lookups,              \* history of the tokens convert passed to get_currency_code
    calls,                \* history of provider operations invoked
    raised,               \* exception that left convert (or the amount parse), "none" if none
    result,               \* value returned by convert, NoResult if none
    response              \* what the shell answered: status / exit code and body

vars == <<table, pc, shell, args, amount, input_currency_code, currency_data,
          idx, output_currencies, lookups, calls, raised, result, response>>

----------------------------------------------------------------------------
(* Bounds *)

MaxTable == 3
MaxAmountLen == 2

(* Python's None, for an absent token / query parameter / option *)
None == "<None>"
NoneAmount == <<None>>

NoResult == [input |-> [amount |-> 0, currency |-> None], output |-> <<>>, returned |-> FALSE]
NoResponse == [code |-> -1, message |-> "", output |-> NoResult]

(* Fixed-point precision: values are integers in units of 10^-Scale *)
Scale == 6

RECURSIVE Pow10(_)
Pow10(n) == IF n <= 0 THEN 1 ELSE 10 * Pow10(n - 1)

----------------------------------------------------------------------------
(* Reference tables *)

Entry(cc, symbol) == [cc |-> cc, symbol |-> symbol]

(* A table in the order the source documents for the shared symbols:
   $ -> AUD, ..., USD with BTC as an extra entry. *)
MasterTable ==
    << Entry("AUD", "$"), Entry("BTC", "BTC"), Entry("EUR", "€"), Entry("USD", "$") >>

RECURSIVE SubSeqs(_, _)
(* every order-preserving sub-list of s with at most n entries *)
SubSeqs(s, n) ==
    IF s = <<>> \/ n = 0 THEN { <<>> }
    ELSE SubSeqs(Tail(s), n)
         \cup { <<Head(s)>> \o t : t \in SubSeqs(Tail(s), n - 1) }

Tables == SubSeqs(MasterTable, MaxTable)

(* Tables for the resolver: every list of at most MaxTable entries with
   unique codes, any symbol per entry (a symbol may equal another entry's code). *)
ResolverCodes == {"AUD", "CNY", "JPY", "USD"}
ResolverSymbols == {"$", "¥", "USD"}

RECURSIVE UniqueCodeTables(_)
UniqueCodeTables(n) ==
    IF n = 0 THEN { <<>> }
    ELSE LET shorter == UniqueCodeTables(n - 1) IN
         shorter \cup
         { Append(t, Entry(c, s)) :
             t \in { u \in shorter : Len(u) = n - 1 },
             c \in ResolverCodes, s \in ResolverSymbols }

HasUniqueCodes(t) == \A i, j \in 1..Len(t) : t[i].cc = t[j].cc => i = j

ResolverTables == { t \in UniqueCodeTables(MaxTable) : HasUniqueCodes(t) }

Tokens == {"AUD", "BTC", "EUR", "USD", "$", "nonexistent"}
ResolverTokens == ResolverCodes \cup ResolverSymbols \cup {"nonexistent", None}

----------------------------------------------------------------------------
(* Symbol resolver *)

RECURSIVE is_currency_code_from(_, _, _)
is_currency_code_from(data, i, currency_string) ==
    IF i > Len(data) THEN FALSE
    ELSE IF data[i].cc = currency_string THEN TRUE
    ELSE is_currency_code_from(data, i + 1, currency_string)

is_currency_code(data, currency_string) ==
    is_currency_code_from(data, 1, currency_string)

RECURSIVE find_symbol_from(_, _, _)
(* the for loop of get_currency_code: first entry whose symbol is the token *)
find_symbol_from(data, i, currency) ==
    IF i > Len(data) THEN None
    ELSE IF data[i].symbol = currency THEN data[i].cc
    ELSE find_symbol_from(data, i + 1, currency)

(* mutant: without the hard coded selection of USD *)
get_currency_code_no_override(data, currency) ==
    IF is_currency_code(data, currency) THEN currency
    ELSE find_symbol_from(data, 1, currency)

get_currency_code(data, currency) ==
    IF is_currency_code(data, currency) THEN currency
    ELSE IF currency = "$" THEN "USD"
    ELSE find_symbol_from(data, 1, currency)

----------------------------------------------------------------------------
(* float(): parsing of the amount text.  The texts of the model are over the
   characters "1", ".", "-" and "a"; over these float() accepts exactly an
   optional leading "-" followed by digits with at most one ".", at least one
   digit in all.  float(None) raises TypeError, a rejected text ValueError. *)

AmountChars == {"1", ".", "-", "a"}

RECURSIVE Texts(_)
Texts(n) ==
    IF n = 0 THEN { <<>> }
    ELSE LET shorter == Texts(n - 1) IN
         shorter \cup { Append(t, c) : t \in { u \in shorter : Len(u) = n - 1 }, c \in AmountChars }

AmountTexts == Texts(MaxAmountLen)

RECURSIVE CountChar(_, _)
CountChar(s, c) ==
    IF s = <<>> THEN 0
    ELSE (IF Head(s) = c THEN 1 ELSE 0) + CountChar(Tail(s), c)

RECURSIVE DotPos(_, _)
(* position of the first "." at or after i, Len(s) + 1 if none *)
DotPos(s, i) ==
    IF i > Len(s) THEN Len(s) + 1
    ELSE IF s[i] = "." THEN i
    ELSE DotPos(s, i + 1)

RECURSIVE DigitsValue(_, _, _)
(* s[i..j], all "1"s, read as a decimal integer *)
DigitsValue(s, i, j) ==
    IF i > j THEN 0 ELSE 10 * DigitsValue(s, i, j - 1) + 1

(* the unsigned part: digits with at most one "." *)
float_unsigned(s) ==
    IF \/ CountChar(s, "1") = 0
       \/ CountChar(s, ".") > 1
       \/ CountChar(s, "1") + CountChar(s, ".") # Len(s)
    THEN [err |-> "ValueError", value |-> 0]
    ELSE LET d == DotPos(s, 1)
             fracLen == IF d > Len(s) THEN 0 ELSE Len(s) - d
         IN [err |-> "none",
             value |-> DigitsValue(s, 1, d - 1) * Pow10(Scale)
                       + DigitsValue(s, d + 1, Len(s)) * Pow10(Scale - fracLen)]

float(s) ==
    IF s = NoneAmount THEN [err |-> "TypeError", value |-> 0]
    ELSE IF s # <<>> /\ Head(s) = "-"
         THEN LET u == float_unsigned(Tail(s)) IN [err |-> u.err, value |-> 0 - u.value]
    ELSE float_unsigned(s)

----------------------------------------------------------------------------
(* round(x, ndigits) on fixed-point values: nearest multiple of
   10^-ndigits, ties to even *)

round(x, ndigits) ==
    LET unit == Pow10(Scale - ndigits)
        a == IF x < 0 THEN 0 - x ELSE x
        q == a \div unit
        r == a % unit
        up == 2 * r > unit \/ (2 * r = unit /\ q % 2 = 1)
        m == (IF up THEN q + 1 ELSE q) * unit
    IN IF x < 0 THEN 0 - m ELSE m

(* values the providers may return (units of 10^-6): 1.234567 and -0.005004 *)
ProviderValues == { 1234567, 0 - 5004 }

----------------------------------------------------------------------------
(* dict assignment d[k] = v on an insertion-ordered dict *)

DictKeys(d) == { d[i].cc : i \in 1..Len(d) }

(* mutant: a new key goes to the front *)
DictSet_prepend(d, k, v) ==
    IF k \in DictKeys(d)
    THEN [i \in 1..Len(d) |-> IF d[i].cc = k THEN [cc |-> k, value |-> v] ELSE d[i]]
    ELSE << [cc |-> k, value |-> v] >> \o d

DictSet(d, k, v) ==
    IF k \in DictKeys(d)
    THEN [i \in 1..Len(d) |-> IF d[i].cc = k THEN [cc |-> k, value |-> v] ELSE d[i]]
    ELSE Append(d, [cc |-> k, value |-> v])

----------------------------------------------------------------------------
(* Error messages and the shells' mapping of convert's outcome *)

ErrorMsg == [ no_connection |-> "ERROR: No connection to a currency server",
              rate_not_available |-> "ERROR: Currency rate not available",
              unknown_currency |-> "ERROR: Unknown currency",
              same_currency |-> "ERROR: Cannot convert into the same currency",
              float_arg_expected |-> "ERROR: Amount argument expected as float number" ]

Answer(code, message) == [code |-> code, message |-> message, output |-> NoResult]

(* the except clauses of currency_converter_api (ValueError: of the amount
   parse, which precedes the call of convert); an exception none of them
   names leaves the view function and the framework answers 500 *)
api_except(exc) ==
    IF exc = "ValueError" THEN Answer(400, ErrorMsg.float_arg_expected)
    ELSE IF exc = "ConnectionError" THEN Answer(503, ErrorMsg.no_connection)
    ELSE IF exc = "RatesNotAvailableError" THEN Answer(405, ErrorMsg.rate_not_available)
    ELSE IF exc = "UnknownCurrencyError" THEN Answer(400, ErrorMsg.unknown_currency)
    ELSE IF exc = "SameCurrencyError" THEN Answer(400, ErrorMsg.same_currency)
    ELSE Answer(500, "Internal Server Error")

(* mutant: the exit codes of RateNotAvailable and UnknownCurrency exchanged *)
main_except_exchanged(exc) ==
    IF exc = "ConnectionError" THEN Answer(2, ErrorMsg.no_connection)
    ELSE IF exc = "RatesNotAvailableError" THEN Answer(4, ErrorMsg.rate_not_available)
    ELSE IF exc = "UnknownCurrencyError" THEN Answer(3, ErrorMsg.unknown_currency)
    ELSE IF exc = "SameCurrencyError" THEN Answer(5, ErrorMsg.same_currency)
    ELSE Answer(1, "Traceback")

(* the except clauses of main *)
main_except(exc) ==
    IF exc = "ConnectionError" THEN Answer(2, ErrorMsg.no_connection)
    ELSE IF exc = "RatesNotAvailableError" THEN Answer(3, ErrorMsg.rate_not_available)
    ELSE IF exc = "UnknownCurrencyError" THEN Answer(4, ErrorMsg.unknown_currency)
    ELSE IF exc = "SameCurrencyError" THEN Answer(5, ErrorMsg.same_currency)
    ELSE Answer(1, "Traceback")

shell_except(sh, exc) == IF sh = "http" THEN api_except(exc) ELSE main_except(exc)

(* `return output` of the view function (200) / print(output) and the normal
   end of main (exit code 0) *)
shell_return(sh, output) ==
    [code |-> IF sh = "http" THEN 200 ELSE 0, message |-> "", output |-> output]

----------------------------------------------------------------------------
(* convert *)

(* mutant: every result rounded to 2 decimals *)
conversion_op_2_decimals(code, cc) ==
    IF code = "BTC" THEN [op |-> "convert_btc_to_cur", ndigits |-> 2]
    ELSE IF cc = "BTC" THEN [op |-> "convert_to_btc", ndigits |-> 2]
    ELSE [op |-> "convert", ndigits |-> 2]

(* the provider operation chosen for the pair and the digits its result is rounded to *)
conversion_op(code, cc) ==
    IF code = "BTC" THEN [op |-> "convert_btc_to_cur", ndigits |-> 2]
    ELSE IF cc = "BTC" THEN [op |-> "convert_to_btc", ndigits |-> 5]
    ELSE [op |-> "convert", ndigits |-> 2]

Call(code, cc, outcome, raw) ==
    [op |-> conversion_op(code, cc).op, from |-> code, to |-> cc, outcome |-> outcome, raw |-> raw]

output_data(amt, code, outs) ==
    [input |-> [amount |-> amt, currency |-> code], output |-> outs, returned |-> TRUE]

(* an exception leaves convert and is handled by the shell that called it *)
Raise(sh, exc) ==
    /\ raised' = exc
    /\ response' = shell_except(sh, exc)
    /\ result' = NoResult
    /\ pc' = "done"

(* the loop is over: lines 147-151, then the shell's success path *)
Return(sh, amt, code, outs) ==
    /\ result' = output_data(amt, code, outs)
    /\ response' = shell_return(sh, output_data(amt, code, outs))
    /\ raised' = "none"
    /\ pc' = "done"

RECURSIVE loop_until_call_no_same(_, _, _, _)
(* mutant: the input currency is skipped in single-target mode too *)
loop_until_call_no_same(data, i, code, output_currency) ==
    IF i > Len(data) THEN [at |-> "return", idx |-> i]
    ELSE IF data[i].cc = code
         THEN loop_until_call_no_same(data, i + 1, code, output_currency)
    ELSE [at |-> "call", idx |-> i]

(* mutant: the input currency is converted like any other target in broadcast mode *)
loop_until_call_no_skip(data, i, code, output_currency) ==
    IF i > Len(data) THEN [at |-> "return", idx |-> i]
    ELSE IF data[i].cc = code /\ output_currency # None
         THEN [at |-> "SameCurrencyError", idx |-> i]
    ELSE [at |-> "call", idx |-> i]

RECURSIVE loop_until_call(_, _, _, _)
(* lines 124-131: the for loop from item i up to its next provider call *)
loop_until_call(data, i, code, output_currency) ==
    IF i > Len(data) THEN [at |-> "return", idx |-> i]
    ELSE IF data[i].cc = code
         THEN IF output_currency = None
              THEN loop_until_call(data, i + 1, code, output_currency)
              ELSE [at |-> "SameCurrencyError", idx |-> i]
    ELSE [at |-> "call", idx |-> i]

(* convert runs from item i of the loop until it blocks in a provider call,
   raises or returns *)
run_loop(sh, amt, code, output_currency, data, i, outs) ==
    LET step == loop_until_call(data, i, code, output_currency) IN
    /\ idx' = step.idx
    /\ output_currencies' = outs
    /\ IF step.at = "call"
       THEN /\ pc' = "loop"
            /\ raised' = "none"
            /\ result' = NoResult
            /\ response' = NoResponse
       ELSE IF step.at = "return"
       THEN Return(sh, amt, code, outs)
       ELSE Raise(sh, step.at)

(* mutant: the output token is resolved and checked before the input token *)
resolve_tokens_output_first(data, input_currency, output_currency) ==
    LET code == get_currency_code(data, input_currency)
        out_code == get_currency_code(data, output_currency)
    IN IF output_currency # None /\ out_code = None
       THEN [err |-> "UnknownCurrencyError", lookups |-> <<output_currency>>,
             code |-> None, out_code |-> None]
       ELSE IF output_currency = None
       THEN [err |-> IF code = None THEN "UnknownCurrencyError" ELSE "none",
             lookups |-> <<input_currency>>, code |-> code, out_code |-> None]
       ELSE [err |-> IF code = None THEN "UnknownCurrencyError" ELSE "none",
             lookups |-> <<output_currency, input_currency>>,
             code |-> code, out_code |-> out_code]

(* lines 106-113: the input token is resolved, then the output token if one
   is given; err names the exception raised, if any *)
resolve_tokens(data, input_currency, output_currency) ==
    LET code == get_currency_code(data, input_currency)
        out_code == get_currency_code(data, output_currency)
    IN IF code = None
       THEN [err |-> "UnknownCurrencyError", lookups |-> <<input_currency>>,
             code |-> None, out_code |-> None]
       ELSE IF output_currency = None
       THEN [err |-> "none", lookups |-> <<input_currency>>,
             code |-> code, out_code |-> None]
       ELSE [err |-> IF out_code = None THEN "UnknownCurrencyError" ELSE "none",
             lookups |-> <<input_currency, output_currency>>,
             code |-> code, out_code |-> out_code]

(* convert, entered from a shell with a parsed amount: lines 105-121, then
   the loop up to its first provider call *)
convert(sh, amt, input_currency, output_currency) ==
    LET r == resolve_tokens(table, input_currency, output_currency)
        data == IF output_currency # None THEN << [cc |-> r.out_code] >> ELSE table
    IN /\ amount' = amt
       /\ calls' = <<>>
       /\ lookups' = r.lookups
       /\ input_currency_code' = r.code
       /\ IF r.err # "none"
          THEN /\ currency_data' = <<>>
               /\ idx' = 1
               /\ output_currencies' = <<>>
               /\ Raise(sh, r.err)
          ELSE /\ currency_data' = data
               /\ run_loop(sh, amt, r.code, output_currency, data, 1, <<>>)

(* a provider call is in flight for currency_data[idx] *)
InCall == pc = "loop" /\ idx \in 1..Len(currency_data)

item == currency_data[idx]

ConvertLocals == <<table, shell, args, amount, input_currency_code, currency_data, lookups>>

(* lines 131-139: the provider returns raw; it is rounded and stored *)
provider_returns(raw) ==
    /\ InCall
    /\ calls' = Append(calls, Call(input_currency_code, item.cc, "returned", raw))
    /\ run_loop(shell, amount, input_currency_code, args.output_currency, currency_data, idx + 1,
                DictSet(output_currencies, item.cc,
                        round(raw, conversion_op(input_currency_code, item.cc).ndigits)))
    /\ UNCHANGED ConvertLocals

(* mutant: RatesNotAvailableError is re-raised in broadcast mode too *)
provider_rates_not_available_raised ==
    /\ InCall
    /\ calls' = Append(calls, Call(input_currency_code, item.cc, "RatesNotAvailableError", 0))
    /\ Raise(shell, "RatesNotAvailableError")
    /\ UNCHANGED <<idx, output_currencies>>
    /\ UNCHANGED ConvertLocals

(* lines 141-145: the provider raises RatesNotAvailableError *)
provider_rates_not_available ==
    /\ InCall
    /\ calls' = Append(calls, Call(input_currency_code, item.cc, "RatesNotAvailableError", 0))
    /\ IF args.output_currency = None
       THEN run_loop(shell, amount, input_currency_code, args.output_currency, currency_data,
                     idx + 1, output_currencies)
       ELSE /\ Raise(shell, "RatesNotAvailableError")
            /\ UNCHANGED <<idx, output_currencies>>
    /\ UNCHANGED ConvertLocals

(* mutant: ConnectionError is caught like RatesNotAvailableError *)
provider_connection_error_caught ==
    /\ InCall
    /\ calls' = Append(calls, Call(input_currency_code, item.cc, "ConnectionError", 0))
    /\ IF args.output_currency = None
       THEN run_loop(shell, amount, input_currency_code, args.output_currency, currency_data,
                     idx + 1, output_currencies)
       ELSE /\ Raise(shell, "ConnectionError")
            /\ UNCHANGED <<idx, output_currencies>>
    /\ UNCHANGED ConvertLocals

(* the provider raises ConnectionError: no except clause of convert names it *)
provider_connection_error ==
    /\ InCall
    /\ calls' = Append(calls, Call(input_currency_code, item.cc, "ConnectionError", 0))
    /\ Raise(shell, "ConnectionError")
    /\ UNCHANGED <<idx, output_currencies>>
    /\ UNCHANGED ConvertLocals

----------------------------------------------------------------------------
(* Shells *)

Request(a, ic, oc, help) ==
    [amount |-> a, input_currency |-> ic, output_currency |-> oc, help |-> help]

NoRequest == Request(NoneAmount, None, None, FALSE)

ConvertIdle ==
    UNCHANGED <<amount, input_currency_code, currency_data, idx, output_currencies,
                lookups, calls>>

(* GET /currency_converter: a query parameter that is missing is None *)
currency_converter_api(a, ic, oc) ==
    /\ pc = "start"
    /\ shell' = "http"
    /\ args' = Request(a, ic, oc, FALSE)
    /\ UNCHANGED table
    /\ LET parsed == float(a) IN
       IF parsed.err # "none"
       THEN /\ Raise("http", parsed.err)
            /\ ConvertIdle
       ELSE convert("http", parsed.value, ic, oc)

(* handle_cli_args: argparse exits (SystemExit) on --help, on a missing
   required argument and on an amount float() rejects *)
handle_cli_args(a, ic, help) ==
    IF help \/ a = NoneAmount \/ ic = None \/ float(a).err # "none"
    THEN "SystemExit"
    ELSE "args"

(* main with a non-empty argument list *)
main(a, ic, oc, help) ==
    /\ pc = "start"
    /\ help \/ a # NoneAmount \/ ic # None \/ oc # None
    /\ shell' = "cli"
    /\ args' = Request(a, ic, oc, help)
    /\ UNCHANGED table
    /\ IF handle_cli_args(a, ic, help) = "SystemExit"
       THEN /\ raised' = "SystemExit"
            /\ response' = Answer(IF help THEN 0 ELSE 1, "usage")
            /\ result' = NoResult
            /\ pc' = "done"
            /\ ConvertIdle
       ELSE convert("cli", float(a).value, ic, oc)

----------------------------------------------------------------------------
(* Specification of the converter *)

AmountArgs == AmountTexts \cup {NoneAmount}
TokenArgs == Tokens \cup {None}

Init ==
    /\ table \in Tables
    /\ pc = "start"
    /\ shell = "none"
    /\ args = NoRequest
    /\ amount = 0
    /\ input_currency_code = None
    /\ currency_data = <<>>
    /\ idx = 1
    /\ output_currencies = <<>>
    /\ lookups = <<>>
    /\ calls = <<>>
    /\ raised = "none"
    /\ result = NoResult
    /\ response = NoResponse

(* a request arrives at one of the shells *)
api_request ==
    /\ pc = "start"
    /\ \E a \in AmountArgs, ic \in TokenArgs, oc \in TokenArgs :
          currency_converter_api(a, ic, oc)

cli_request ==
    /\ pc = "start"
    /\ \E a \in AmountArgs, ic \in TokenArgs, oc \in TokenArgs, help \in BOOLEAN :
          main(a, ic, oc, help)

Next ==
    \/ api_request
    \/ cli_request
    \/ \E raw \in ProviderValues : provider_returns(raw)
    \/ provider_rates_not_available
    \/ provider_connection_error

Spec == Init /\ [][Next]_vars

----------------------------------------------------------------------------
(* Specification of the resolver alone: get_currency_code applied to a token
   under every table of at most MaxTable entries with unique codes *)

resolve(token) ==
    /\ pc = "start"
    /\ shell' = "resolver"
    /\ args' = Request(NoneAmount, token, None, FALSE)
    /\ lookups' = <<token>>
    /\ input_currency_code' = get_currency_code(table, token)
    /\ pc' = "done"
    /\ UNCHANGED <<table, amount, currency_data, idx, output_currencies, calls,
                   raised, result, response>>

InitResolve ==
    /\ table \in ResolverTables
    /\ pc = "start"
    /\ shell = "none"
    /\ args = NoRequest
    /\ amount = 0
    /\ input_currency_code = None
    /\ currency_data = <<>>
    /\ idx = 1
    /\ output_currencies = <<>>
    /\ lookups = <<>>
    /\ calls = <<>>
    /\ raised = "none"
    /\ result = NoResult
    /\ response = NoResponse

NextResolve == \E token \in ResolverTokens : resolve(token)

SpecResolve == InitResolve /\ [][NextResolve]_vars

----------------------------------------------------------------------------
(* Vocabulary of the properties *)

Codes(t) == { t[i].cc : i \in 1..Len(t) }

SymbolPositions(t, token) == { i \in 1..Len(t) : t[i].symbol = token }

(* the resolution rule as stated: code, then "$", then first symbol in table order *)
Resolved(t, token) ==
    IF token \in Codes(t) THEN token
    ELSE IF token = "$" THEN "USD"
    ELSE IF SymbolPositions(t, token) # {}
         THEN t[CHOOSE i \in SymbolPositions(t, token) :
                    \A j \in SymbolPositions(t, token) : i <= j].cc
    ELSE None

(* the amount text is a number: an optional "-", then digits with at most one "." *)
IsNumberText(a) ==
    /\ a # NoneAmount
    /\ \E i \in 1..Len(a) : a[i] = "1"
    /\ \A i \in 1..Len(a) : a[i] \in {"1", "."} \/ (i = 1 /\ a[i] = "-")
    /\ \A i, j \in 1..Len(a) : (a[i] = "." /\ a[j] = ".") => i = j

(* the shell got as far as calling convert *)
ConvertCalled ==
    \/ shell = "http" /\ IsNumberText(args.amount)
    \/ /\ shell = "cli"
       /\ ~args.help
       /\ args.input_currency # None
       /\ IsNumberText(args.amount)

InCode == Resolved(table, args.input_currency)
OutCode == Resolved(table, args.output_currency)

Broadcast == ConvertCalled /\ args.output_currency = None /\ InCode # None
SingleTarget == ConvertCalled /\ args.output_currency # None /\ InCode # None /\ OutCode # None

Outcomes(o) == { i \in 1..Len(calls) : calls[i].outcome = o }

FailureKinds == {"UnknownCurrencyError", "SameCurrencyError", "RatesNotAvailableError",
                 "ConnectionError"}

----------------------------------------------------------------------------
(* Properties *)

(* C1: when convert is called with an explicit output token whose resolved
   code equals the resolved input code, it fails with SameCurrency, whatever
   the amount, and no rate-provider operation is invoked. *)
C1_SameCurrency ==
    (pc # "start" /\ SingleTarget /\ InCode = OutCode)
        => /\ pc = "done"
           /\ raised = "SameCurrencyError"
           /\ calls = <<>>
           /\ ~result.returned

(* "$" against "USD": one side a symbol, the other the code *)
C1_Witness ==
    /\ pc = "done"
    /\ raised = "SameCurrencyError"
    /\ args.input_currency = "$"
    /\ args.output_currency = "USD"
    /\ amount < 0

(* C2: a connection failure of the provider on any target ends convert at
   once with ConnectionFailure, in single-target and in broadcast mode: the
   failed call is the last provider operation ever invoked (no retry, no
   later target) and no result, not even a partial one, is returned. *)
C2_ConnectionFailure ==
    \A i \in Outcomes("ConnectionError") :
        /\ i = Len(calls)
        /\ pc = "done"
        /\ raised = "ConnectionError"
        /\ result = NoResult
        /\ response.output = NoResult

(* broadcast, after a target was already converted and with targets left *)
C2_Witness ==
    /\ raised = "ConnectionError"
    /\ args.output_currency = None
    /\ output_currencies # <<>>
    /\ idx < Len(currency_data)

(* C3: rate-unavailable for a target.  Broadcast mode: the target is left
   out of the output, the loop goes on to the remaining targets and the call
   succeeds (unless the connection fails on a later target).  Single-target
   mode, BTC included: the call fails with RateNotAvailable. *)
C3_RateNotAvailable ==
    \A i \in Outcomes("RatesNotAvailableError") :
        IF args.output_currency = None
        THEN /\ calls[i].to \notin DictKeys(output_currencies)
             /\ raised \in {"none", "ConnectionError"}
             /\ i = Len(calls) =>
                   \/ pc = "loop" /\ idx \in 1..Len(currency_data)
                                  /\ currency_data[idx].cc # calls[i].to
                   \/ pc = "done" /\ idx > Len(currency_data)
             /\ (pc = "done" /\ Outcomes("ConnectionError") = {}) =>
                   /\ raised = "none"
                   /\ result.returned
                   /\ calls[i].to \notin DictKeys(result.output)
        ELSE /\ i = Len(calls)
             /\ pc = "done"
             /\ raised = "RatesNotAvailableError"
             /\ result = NoResult

(* broadcast: a target without a rate, then a later target converted *)
C3_Witness ==
    /\ args.output_currency = None
    /\ result.returned
    /\ \E i \in Outcomes("RatesNotAvailableError") :
          \E j \in Outcomes("returned") : i < j

(* C4: in broadcast mode the resolved input code is never a key of the
   output, and meeting it in the target set is no failure: if every provider
   call returned or signalled rate-unavailable, the call succeeds, even with
   an empty output. *)
C4_BroadcastOmitsInput ==
    (pc # "start" /\ Broadcast)
        => /\ InCode \notin DictKeys(output_currencies)
           /\ InCode \notin DictKeys(result.output)
           /\ \A i \in 1..Len(calls) : calls[i].to # InCode
           /\ raised \in {"none", "ConnectionError"}
           /\ (pc = "done" /\ Outcomes("ConnectionError") = {}) =>
                 (raised = "none" /\ result.returned)

(* the input code is in the table, and the output ends up empty *)
C4_Witness ==
    /\ Broadcast
    /\ InCode \in Codes(table)
    /\ calls # <<>>
    /\ result.returned
    /\ result.output = <<>>

(* C5: convert fails with UnknownCurrency when the input token resolves to
   nothing, or an output token is given and resolves to nothing; the input
   token is resolved first (an unknown input token ends convert before the
   output token is looked up), and no provider operation is invoked. *)
C5_UnknownCurrency ==
    (pc # "start" /\ ConvertCalled)
        => /\ (InCode = None \/ (args.output_currency # None /\ OutCode = None))
                 => /\ pc = "done"
                    /\ raised = "UnknownCurrencyError"
                    /\ calls = <<>>
                    /\ ~result.returned
           /\ InCode = None => lookups = <<args.input_currency>>
           /\ (InCode # None /\ args.output_currency # None)
                 => lookups = <<args.input_currency, args.output_currency>>

(* an unknown input token with a known output token *)
C5_Witness ==
    /\ ConvertCalled
    /\ raised = "UnknownCurrencyError"
    /\ InCode = None
    /\ args.output_currency # None
    /\ OutCode # None

(* C6: for every token and every table with unique codes, get_currency_code
   gives the token itself if it is a code of the table (whatever symbols match),
   otherwise "USD" for "$", otherwise the code of the first entry in table
   order whose symbol is the token, otherwise nothing. *)
C6_Resolve ==
    (shell = "resolver" /\ pc = "done")
        => input_currency_code = Resolved(table, args.input_currency)

(* "¥": CNY before JPY, both with the symbol; the first one is returned *)
C6_Witness ==
    /\ shell = "resolver"
    /\ pc = "done"
    /\ args.input_currency = "¥"
    /\ Len(table) >= 2
    /\ table[1] = Entry("CNY", "¥")
    /\ table[2] = Entry("JPY", "¥")
    /\ input_currency_code = "CNY"

(* the targets of a broadcast: the table's codes other than the input code, in table order *)
RECURSIVE TargetsFrom(_, _, _)
TargetsFrom(t, i, code) ==
    IF i > Len(t) THEN <<>>
    ELSE (IF t[i].cc = code THEN <<>> ELSE <<t[i].cc>>) \o TargetsFrom(t, i + 1, code)

BroadcastTargets == TargetsFrom(table, 1, InCode)

RECURSIVE ReturnedTargets(_)
(* the targets whose provider call returned, in call order *)
ReturnedTargets(cs) ==
    IF cs = <<>> THEN <<>>
    ELSE (IF Head(cs).outcome = "returned" THEN <<Head(cs).to>> ELSE <<>>)
         \o ReturnedTargets(Tail(cs))

(* C7: in a broadcast the provider operations are invoked for the table's
   entries other than the input code, one per entry, in table order; when the
   call succeeds every such entry was invoked exactly once, the output's keys
   are the targets whose call returned, unique and in that order, and the
   result's input is the given amount with the resolved input code. *)
C7_BroadcastOrder ==
    (pc # "start" /\ Broadcast)
        => /\ Len(calls) <= Len(BroadcastTargets)
           /\ \A i \in 1..Len(calls) :
                 calls[i].to = BroadcastTargets[i] /\ calls[i].from = InCode
           /\ pc = "loop" => currency_data[idx].cc = BroadcastTargets[Len(calls) + 1]
           /\ result.returned =>
                 /\ Len(calls) = Len(BroadcastTargets)
                 /\ [i \in 1..Len(result.output) |-> result.output[i].cc]
                       = ReturnedTargets(calls)
                 /\ \A i, j \in 1..Len(result.output) :
                       result.output[i].cc = result.output[j].cc => i = j
                 /\ result.input.currency = InCode
                 /\ result.input.amount = amount
                 /\ response.output = result

(* the raw token "$" (not a code), the input code inside the table, a target
   without a rate between two converted ones *)
C7_Witness ==
    /\ Broadcast
    /\ result.returned
    /\ args.input_currency = "$"
    /\ result.input.currency = "USD"
    /\ "USD" \in Codes(table)
    /\ Len(calls) >= 2
    /\ Len(result.output) >= 1
    /\ Len(result.output) < Len(calls)

(* the value v is x rounded to nd decimals: a multiple of 10^-nd nearest to x *)
IsRounded(v, x, nd) ==
    /\ v % Pow10(Scale - nd) = 0
    /\ 2 * (v - x) <= Pow10(Scale - nd)
    /\ 2 * (x - v) <= Pow10(Scale - nd)

ValueOf(d, k) == (CHOOSE e \in { d[i] : i \in 1..Len(d) } : e.cc = k).value

(* C8: for every converted pair: from BTC the bitcoin-to-fiat operation is
   used and the result is rounded to 2 decimals; otherwise to BTC the
   fiat-to-bitcoin operation is used and the result is rounded to 5 decimals;
   otherwise the fiat-to-fiat operation, rounded to 2 decimals.  A stored
   value carries 5 decimals exactly when its target is BTC. *)
C8_Rounding ==
    \A i \in 1..Len(calls) :
        /\ calls[i].op = (IF calls[i].from = "BTC" THEN "convert_btc_to_cur"
                          ELSE IF calls[i].to = "BTC" THEN "convert_to_btc"
                          ELSE "convert")
        /\ calls[i].outcome = "returned" =>
              /\ calls[i].to \in DictKeys(output_currencies)
              /\ IsRounded(ValueOf(output_currencies, calls[i].to), calls[i].raw,
                           IF calls[i].to = "BTC" THEN 5 ELSE 2)

(* a broadcast from a fiat currency: the BTC value keeps digits beyond the
   second decimal, a fiat value of the same result does not *)
C8_Witness ==
    /\ result.returned
    /\ \E i, j \in 1..Len(result.output) :
          /\ result.output[i].cc = "BTC"
          /\ result.output[i].value % Pow10(Scale - 2) # 0
          /\ result.output[j].cc # "BTC"
          /\ result.output[j].value % Pow10(Scale - 2) = 0

(* C9: both shells map every outcome of convert to a fixed code.  HTTP:
   UnknownCurrency 400, SameCurrency 400, RateNotAvailable 405,
   ConnectionFailure 503, success 200 with the result.  CLI: ConnectionFailure
   2, RateNotAvailable 3, UnknownCurrency 4, SameCurrency 5, success prints
   the result and exits with none of these.  No other failure leaves convert. *)
C9_ShellCodes ==
    (pc = "done" /\ ConvertCalled)
        => /\ raised \in FailureKinds \cup {"none"}
           /\ raised = "none" <=> result.returned
           /\ shell = "http" =>
                 /\ raised = "UnknownCurrencyError" => response.code = 400
                 /\ raised = "SameCurrencyError" => response.code = 400
                 /\ raised = "RatesNotAvailableError" => response.code = 405
                 /\ raised = "ConnectionError" => response.code = 503
                 /\ raised = "none" => response.code = 200 /\ response.output = result
           /\ shell = "cli" =>
                 /\ raised = "ConnectionError" => response.code = 2
                 /\ raised = "RatesNotAvailableError" => response.code = 3
                 /\ raised = "UnknownCurrencyError" => response.code = 4
                 /\ raised = "SameCurrencyError" => response.code = 5
                 /\ raised = "none" => response.code \notin {2, 3, 4, 5}
                                       /\ response.output = result
           /\ raised # "none" => response.output = NoResult

(* the HTTP shell answering a rate that is not available *)
C9_Witness ==
    /\ pc = "done"
    /\ shell = "http"
    /\ raised = "RatesNotAvailableError"
    /\ response.code = 405
    /\ response.message = ErrorMsg.rate_not_available

(* C10: the HTTP endpoint answers every request whose amount parameter is
   not a number (a non-numeric text, the empty text, or no parameter at all)
   with status 400 and the float-expected message, without calling convert. *)
C10_AmountNotANumber ==
    (pc # "start" /\ shell = "http" /\ ~IsNumberText(args.amount))
        => /\ pc = "done"
           /\ response.code = 400
           /\ response.message = ErrorMsg.float_arg_expected
           /\ lookups = <<>>
           /\ calls = <<>>

====
